---- MODULE Spec2Model ----
(***************************************************************************)
(* A model of projector.py: project (the latent-space optimisation loop    *)
(* with its learning-rate / noise schedules, its loss terms and its noise  *)
(* regulariser), vgg16_multi_layers_output, and getHeatMap /               *)
(* getGaussianHeatMap.                                                     *)
(*                                                                         *)
(* Numbers.  Real-valued quantities that the claims compare exactly        *)
(* (schedules, latent statistics, regulariser) are rationals <<n, d>> in   *)
(* lowest terms with d > 0.  Noise buffers are fixed-point integers in     *)
(* units of 1/Unit, cos and sqrt are fixed-point approximations, and the   *)
(* Gaussian density is a fixed-point table.  The generator and the VGG16   *)
(* network are external: the model gives them small deterministic stubs    *)
(* and draws what depends on them freely (the synthesised image, the       *)
(* direction of the optimizer update).                                     *)
(***************************************************************************)
EXTENDS Integers, Sequences, FiniteSets, TLC

(***************************************************************************)
(* Bounds of the model.                                                    *)
(***************************************************************************)
MaxSteps == 3          \* num_steps of the full project model: 0..MaxSteps
MaxSchedSteps == 200   \* num_steps of the schedule model: 0..MaxSchedSteps

(***************************************************************************)
(* Rationals.                                                              *)
(***************************************************************************)
Abs(x) == IF x < 0 THEN -x ELSE x

RECURSIVE Gcd(_, _)
Gcd(a, b) == IF b = 0 THEN a ELSE Gcd(b, a % b)

Q(n, d) ==
    LET g == Gcd(Abs(n), Abs(d))
        s == IF d < 0 THEN -1 ELSE 1
    IN  <<(s * n) \div g, (s * d) \div g>>

QInt(k) == <<k, 1>>
QAdd(a, b) == Q(a[1] * b[2] + b[1] * a[2], a[2] * b[2])
QSub(a, b) == Q(a[1] * b[2] - b[1] * a[2], a[2] * b[2])
QMul(a, b) ==
    LET g1 == Gcd(Abs(a[1]), b[2])
        g2 == Gcd(Abs(b[1]), a[2])
    IN  Q((a[1] \div g1) * (b[1] \div g2), (a[2] \div g2) * (b[2] \div g1))
QDiv(a, b) == QMul(a, Q(b[2], b[1]))
QSquare(a) == QMul(a, a)

\* a < b for non-negative rationals, by comparing continued fractions: no
\* cross product, so no overflow.
RECURSIVE QLessNN(_, _)
QLessNN(a, b) ==
    LET qa == a[1] \div a[2]
        qb == b[1] \div b[2]
        ra == a[1] % a[2]
        rb == b[1] % b[2]
    IN  IF qa # qb THEN qa < qb
        ELSE IF rb = 0 THEN FALSE
        ELSE IF ra = 0 THEN TRUE
        ELSE QLessNN(<<b[2], rb>>, <<a[2], ra>>)

QLess(a, b) ==
    IF a[1] < 0 /\ b[1] >= 0 THEN TRUE
    ELSE IF a[1] >= 0 /\ b[1] < 0 THEN FALSE
    ELSE IF a[1] < 0 THEN QLessNN(<<-b[1], b[2]>>, <<-a[1], a[2]>>)
    ELSE QLessNN(a, b)
QLeq(a, b) == a = b \/ QLess(a, b)
QMin(a, b) == IF QLess(b, a) THEN b ELSE a
QMax(a, b) == IF QLess(a, b) THEN b ELSE a
\* floor(a * k) for an integer k >= 0
QFloorTimes(a, k) == (a[1] * k) \div a[2]

Zero == QInt(0)
One == QInt(1)

(***************************************************************************)
(* Fixed-point cos(pi * x) for a rational 0 <= x <= 1, in units of         *)
(* 1/CosUnit: the Taylor polynomial of cos on [0, pi/2], mirrored for      *)
(* x > 1/2.  np.cos(0) = 1 and np.cos(np.pi) = -1 are exact, as here.      *)
(***************************************************************************)
CosUnit == 10000
PiFixed == 31416

CosTaylor(y) ==
    LET y2 == (y * y) \div CosUnit
        t1 == y2 \div 2
        t2 == (t1 * y2) \div (12 * CosUnit)
        t3 == (t2 * y2) \div (30 * CosUnit)
        t4 == (t3 * y2) \div (56 * CosUnit)
        t5 == (t4 * y2) \div (90 * CosUnit)
    IN  CosUnit - t1 + t2 - t3 + t4 - t5

CosPi(x) ==
    LET xf == QFloorTimes(x, CosUnit)
    IN  IF 2 * xf <= CosUnit
        THEN Q(CosTaylor((PiFixed * xf) \div CosUnit), CosUnit)
        ELSE Q(-CosTaylor((PiFixed * (CosUnit - xf)) \div CosUnit), CosUnit)

(***************************************************************************)
(* project, lines 142-148: the schedules of one step.  hp holds the        *)
(* keyword arguments of project as rationals.                              *)
(***************************************************************************)
DefaultHp ==
    [initial_learning_rate |-> Q(1, 10),
     initial_noise_factor  |-> Q(1, 20),
     lr_rampdown_length    |-> Q(1, 4),
     lr_rampup_length      |-> Q(1, 20),
     noise_ramp_length     |-> Q(3, 4)]

\* t = step / num_steps
Progress(s, n) == Q(s, n)

NoiseRampUnclamped(h, s, n) == QSub(One, QDiv(Progress(s, n), h.noise_ramp_length))

\* w_noise_scale = w_std * initial_noise_factor * max(0.0, 1.0 - t / noise_ramp_length) ** 2
NoiseRamp(h, s, n) ==
    QMax(Zero, QSub(One, QDiv(Progress(s, n), h.noise_ramp_length)))

WNoiseScale(h, std, s, n) ==
    QMul(QMul(std, h.initial_noise_factor), QSquare(NoiseRamp(h, s, n)))

\* lr_ramp = min(1.0, (1.0 - t) / lr_rampdown_length)
RampDownArg(h, s, n) ==
    QMin(One, QDiv(QSub(One, Progress(s, n)), h.lr_rampdown_length))

\* lr_ramp = 0.5 - 0.5 * np.cos(lr_ramp * np.pi)
CosRamp(x) == QSub(Q(1, 2), QMul(Q(1, 2), CosPi(x)))

RampUpMissing(h, s, n) == One

\* lr_ramp = lr_ramp * min(1.0, t / lr_rampup_length)
RampUpFactor(h, s, n) == QMin(One, QDiv(Progress(s, n), h.lr_rampup_length))

LrRamp(h, s, n) == QMul(CosRamp(RampDownArg(h, s, n)), RampUpFactor(h, s, n))

\* lr = initial_learning_rate * lr_ramp
LearningRate(h, s, n) == QMul(h.initial_learning_rate, LrRamp(h, s, n))

(***************************************************************************)
(* Fixed-point square root (x ** 0.5) of a non-negative rational, in units *)
(* of 1/Unit.                                                              *)
(***************************************************************************)
Unit == 100

RECURSIVE ISqrtIn(_, _, _)
ISqrtIn(x, lo, hi) ==
    IF lo >= hi THEN lo
    ELSE LET mid == (lo + hi + 1) \div 2
         IN  IF mid * mid <= x THEN ISqrtIn(x, mid, hi) ELSE ISqrtIn(x, lo, mid - 1)

\* floor(sqrt(x)) for 0 <= x < 2^30
ISqrt(x) == ISqrtIn(x, 0, 32767)

QSqrt(q) == Q(ISqrt((q[1] * Unit * Unit) \div q[2]), Unit)

(***************************************************************************)
(* project, lines 76-87: the statistics of the latent samples.  A sample   *)
(* is a sequence of num_ws layer codes, each a sequence of WDim integers.  *)
(***************************************************************************)
WDim == 2      \* C, the width of a latent code in the model
NumWs == 2     \* G.mapping.num_ws of the stub generator
MaxSamples == 3  \* w_avg_samples and the rows of a sample file: 1..MaxSamples

RECURSIVE SumTo(_, _)
\* f[1] + ... + f[n] for a sequence of integers
SumTo(f, n) == IF n = 0 THEN 0 ELSE f[n] + SumTo(f, n - 1)
SumSeq(f) == SumTo(f, Len(f))

RECURSIVE QSumTo(_, _)
QSumTo(f, n) == IF n = 0 THEN Zero ELSE QAdd(f[n], QSumTo(f, n - 1))
QSumSeq(f) == QSumTo(f, Len(f))

\* z_samples = np.random.RandomState(123).randn(w_avg_samples, G.z_dim): a
\* fixed seed, so row i is a fixed value (z_dim = 1 in the model)
ZSamples(n) == [i \in 1..n |-> ((i * i + 1) % 4) - 1]

\* G.mapping(z, None) of the stub generator: one code, broadcast to num_ws layers
Mapping(z) ==
    [i \in 1..Len(z) |-> [l \in 1..NumWs |-> [c \in 1..WDim |-> (3 - 2 * c) * z[i] + c - 1]]]

\* w_samples[:, :1, :]
FirstLayer(samples) == [i \in 1..Len(samples) |-> samples[i][1]]

\* np.mean(w_samples, axis=0, keepdims=True)
WAvg(s) == [c \in 1..WDim |-> Q(SumSeq([i \in 1..Len(s) |-> s[i][c]]), Len(s))]

\* np.sum((w_samples - w_avg) ** 2)
SumSqDev(s, avg) ==
    QSumSeq([i \in 1..Len(s) |->
        QSumSeq([c \in 1..WDim |-> QSquare(QSub(QInt(s[i][c]), avg[c]))])])

\* the divisor of line 87
StdDivisor(s, n_avg) == n_avg

\* w_std = (np.sum((w_samples - w_avg) ** 2) / w_avg_samples) ** 0.5
WStd(s, n_avg) ==
    QSqrt(QDiv(SumSqDev(s, WAvg(s)), QInt(StdDivisor(s, n_avg))))

(***************************************************************************)
(* vgg16_multi_layers_output, lines 29-40.  The network is external: the   *)
(* stub has the submodules NamedModules (the first, "", is the container   *)
(* itself, as named_modules() yields it), layer i maps a feature value x   *)
(* to LayerOut(i, x), and `fail` is the index of the first submodule that  *)
(* raises on the given input shape (Len(NamedModules) + 1: none does).     *)
(***************************************************************************)
NamedModules == <<"", "conv1", "relu1", "conv2", "pool1", "conv6", "conv9", "fc1">>

\* line 64
convs == <<"conv1", "conv2", "conv6", "conv9">>

Range(f) == {f[i] : i \in DOMAIN f}

\* layer(inputs) of the stub network
LayerOut(i, x) == 2 * x + i

\* line 36: if name in layers
Requested(name, layers) == name \in Range(layers)

RECURSIVE Traverse(_, _, _, _, _)
Traverse(fail, i, inputs, layers, result) ==
    IF i > Len(NamedModules) THEN result
    ELSE IF NamedModules[i] = "" THEN Traverse(fail, i + 1, inputs, layers, result)
    ELSE IF i = fail THEN result
    ELSE LET outputs == LayerOut(i, inputs)
         IN  Traverse(fail, i + 1, outputs, layers,
                      IF Requested(NamedModules[i], layers)
                      THEN [n \in DOMAIN result \cup {NamedModules[i]} |->
                               IF n = NamedModules[i] THEN outputs ELSE result[n]]
                      ELSE result)

\* the empty dict
EmptyDict == [n \in {} |-> 0]

vgg16_multi_layers_output(fail, inputs, layers) ==
    Traverse(fail, 1, inputs, layers, EmptyDict)

\* vgg16(images, resize_images=False, return_lpips=True) of the stub network
Lpips(img) == 3 * img + 1

(***************************************************************************)
(* Noise buffers: H x H arrays (sequences of rows) of fixed-point numbers  *)
(* in units of 1/Unit.  NaN, the empty array, stands for a buffer whose     *)
(* normalisation divided by zero (every element nan).                      *)
(***************************************************************************)
NaN == <<>>

\* reg_loss when a buffer is NaN (the regulariser is never negative)
NaNLoss == -1

\* round(a / b) for b > 0
RDiv(a, b) == (2 * a + b) \div (2 * b)

Res(buf) == Len(buf)
IsNaN(buf) == Len(buf) = 0

\* the sum of all elements of an array
SumGrid(m) == SumSeq([i \in 1..Len(m) |-> SumSeq(m[i])])

\* torch.roll(noise, shifts=1, dims=3): along the width
RollW(buf) ==
    LET h == Res(buf)
    IN  [i \in 1..h |-> [j \in 1..h |-> buf[i][IF j = 1 THEN h ELSE j - 1]]]

\* torch.roll(noise, shifts=1, dims=2): along the height
RollH(buf) ==
    LET h == Res(buf)
    IN  [i \in 1..h |-> [j \in 1..h |-> buf[IF i = 1 THEN h ELSE i - 1][j]]]

\* (noise * shifted).mean() ** 2, in units of 1/Unit
MeanProdSq(buf, shifted) ==
    LET h == Res(buf)
        P(i, j) == buf[i][j] * shifted[i][j]
        m == RDiv(SumGrid([i \in 1..h |-> [j \in 1..h |-> P(i, j)]]), h * h * Unit)
    IN  RDiv(m * m, Unit)

\* F.avg_pool2d(noise, kernel_size=2)
AvgPool2d(buf) ==
    LET h == Res(buf) \div 2
    IN  [i \in 1..h |-> [j \in 1..h |->
            RDiv(buf[2 * i - 1][2 * j - 1] + buf[2 * i - 1][2 * j]
                 + buf[2 * i][2 * j - 1] + buf[2 * i][2 * j], 4)]]

RegBreakEarly(noise) == Res(noise) <= 16

\* line 187: if noise.shape[2] <= 8: break
RegBreak(noise) == Res(noise) <= 8

\* lines 182-189: the while loop over the scales of one buffer
RECURSIVE RegScales(_)
RegScales(noise) ==
    LET here == MeanProdSq(noise, RollW(noise)) + MeanProdSq(noise, RollH(noise))
    IN  IF RegBreak(noise) THEN here ELSE here + RegScales(AvgPool2d(noise))

RECURSIVE RegOver(_, _)
RegOver(bufs, names) ==
    IF names = {} THEN 0
    ELSE LET n == CHOOSE x \in names : TRUE
         IN  RegScales(bufs[n]) + RegOver(bufs, names \ {n})

\* lines 179-189: reg_loss over noise_bufs.values()
RegLoss(bufs) ==
    IF \E n \in DOMAIN bufs : IsNaN(bufs[n]) THEN NaNLoss ELSE RegOver(bufs, DOMAIN bufs)

\* line 217: buf -= buf.mean()
SubMean(buf) ==
    LET h == Res(buf)
        V(i, j) == buf[i][j]
        mean == RDiv(SumGrid([i \in 1..h |-> [j \in 1..h |-> V(i, j)]]), h * h)
    IN  [i \in 1..h |-> [j \in 1..h |-> buf[i][j] - mean]]

\* buf.square().mean(), in units of 1/Unit^2
MeanSquare(buf) ==
    LET h == Res(buf)
        S(i, j) == buf[i][j] * buf[i][j]
    IN  RDiv(SumGrid([i \in 1..h |-> [j \in 1..h |-> S(i, j)]]), h * h)

\* line 218: buf *= buf.square().mean().rsqrt(); 0 * inf is nan
ScaleRsqrt(buf) ==
    LET h == Res(buf)
        r == ISqrt(MeanSquare(buf))
    IN  IF r = 0 THEN NaN
        ELSE [i \in 1..h |-> [j \in 1..h |-> RDiv(buf[i][j] * Unit, r)]]

NormalizeNoMean(buf) == IF IsNaN(buf) THEN NaN ELSE ScaleRsqrt(buf)

\* lines 217-218 on one buffer
NormalizeBuf(buf) == IF IsNaN(buf) THEN NaN ELSE ScaleRsqrt(SubMean(buf))

(***************************************************************************)
(* The stub generator and the draws of the random number generator.        *)
(***************************************************************************)
None == "None"

\* check_point_w_file=None
NoFile == <<>>

\* a draw of torch.randn_like(buf) for an h x h buffer: never constant
RandnBuf(h, seed) ==
    [i \in 1..h |-> [j \in 1..h |-> (((3 * i + 2 * j + 7 * seed) % 5) - 2) * 60]]

NoiseSeeds == {0, 1}

\* G.synthesis.named_buffers() of the caller's generator: name :> buffer
GBuffers ==
    [n \in {<<"b2.conv1", "noise_const">>, <<"b4.conv0", "noise_const">>,
            <<"b4.conv0", "resample_filter">>} |->
        IF n[1] = "b2.conv1" THEN RandnBuf(2, 2) ELSE RandnBuf(4, 3)]

\* line 93: if 'noise_const' in name
IsNoiseName(n) == n[2] = "noise_const"

\* draws of torch.randn_like(w_opt)
RandnW == {[c \in 1..WDim |-> 2 * (c % 2) - 1], [c \in 1..WDim |-> 2 - 3 * (c % 2)]}

\* G.synthesis(ws, noise_mode='const') of the stub generator: a one-pixel image in [-1, 1]
Synthesis(w, bufs) == IF QLess(w[1][1], w[1][WDim]) THEN -1 ELSE 1

\* line 164: synth_images = (synth_images + 1) * (255 / 2)
Rescale(img) == ((img + 1) * 255) \div 2

\* What backward() and Adam make of the loss: the update of a parameter is
\* -lr * d with d the bias-corrected ratio of its moments.  The gradient comes
\* from the external networks, so d is drawn: Grads indexes a few patterns.
MaxGrad == 2
WDir(g) == [c \in 1..WDim |-> IF g = 0 THEN 0 ELSE IF g = 1 THEN 2 * (c % 2) - 1 ELSE -1]
BufDir(g, i, j) == IF g = 0 THEN 0 ELSE IF g = 1 THEN 1 - 2 * ((i + j) % 2) ELSE i % 2

\* optimizer.step() on the latent code and on one noise buffer
StepW(w, rate, g) == [c \in 1..WDim |-> QSub(w[c], QMul(rate, QInt(WDir(g)[c])))]
StepBuf(buf, rate, g) ==
    IF IsNaN(buf) THEN NaN
    ELSE [i \in 1..Res(buf) |-> [j \in 1..Res(buf) |->
             buf[i][j] - QFloorTimes(rate, Unit) * BufDir(g, i, j)]]

SnapshotPerturbed(w, noise) == [c \in 1..WDim |-> QAdd(w[c], noise[c])]

\* line 212: the value written to w_out[step]
Snapshot(w, noise) == w

\* line 220: w_out.repeat([1, G.mapping.num_ws, 1])
Repeat(out) == [t \in 1..Len(out) |-> [l \in 1..NumWs |-> out[t]]]

(***************************************************************************)
(* Generator objects.  A generator is a record: id is the identity of the  *)
(* object, buffers its named buffers, weights its parameters, training its *)
(* mode, requires_grad the flag of its parameters and buf_requires_grad    *)
(* the flag of its noise buffers.  Two names alias when their ids agree:   *)
(* what is stored through one is then seen through the other.              *)
(***************************************************************************)
DeepcopyAlias(g) == g

\* copy.deepcopy(G): a new object with the same contents
Deepcopy(g) == [g EXCEPT !.id = g.id + 1]

\* .eval().requires_grad_(False), in place on the object it is called on
EvalFrozen(g) == [g EXCEPT !.training = FALSE, !.requires_grad = FALSE]

\* the buffers of g after bufs were written in place
WriteBufs(g, bufs) ==
    [g EXCEPT !.buffers = [n \in DOMAIN g.buffers |->
                              IF n \in DOMAIN bufs THEN bufs[n] ELSE g.buffers[n]]]

\* what the name g refers to after obj was written in place
Alias(g, obj) == IF obj.id = g.id THEN obj ELSE g

(***************************************************************************)
(* State.                                                                  *)
(***************************************************************************)
VARIABLES
    pc,                  \* the position in the function being run
    \* arguments of project
    num_steps, image2GAN_method, hp, w_avg_samples, check_point_w_file, target,
    vgg16,               \* the first submodule of the VGG16 stub that raises
    G,                   \* the caller's generator
    \* locals of project
    G_local,             \* the name G after line 70: project's own generator object
    w_samples, w_avg, w_std, noise_bufs, target_convs, target_features, w_opt, w_out,
    step, w_noise_scale, lr, w_noise, ws, synth_images, synth_convs, dist, reg_loss,
    ret,                 \* the value returned
    \* argument and locals of getHeatMap
    pose, image_size, heat_i, stack, heatmap

argVars == <<num_steps, image2GAN_method, hp, w_avg_samples, check_point_w_file, target, vgg16>>
inVars == <<argVars, G>>
statVars == <<w_samples, w_avg, w_std>>
setupVars == <<G_local, noise_bufs, target_convs, target_features, w_opt, w_out>>
loopVars == <<step, w_noise_scale, lr, w_noise, ws, synth_images, synth_convs, dist, reg_loss>>
heatVars == <<pose, image_size, heat_i, stack, heatmap>>
vars == <<pc, inVars, statVars, setupVars, loopVars, ret, heatVars>>

\* locals not yet assigned
NoStats == w_samples = None /\ w_avg = None /\ w_std = None
NoSetup ==
    /\ G_local = None
    /\ noise_bufs = None /\ target_convs = None /\ target_features = None
    /\ w_opt = None /\ w_out = None
NoLoop ==
    /\ step = None /\ w_noise_scale = None /\ lr = None /\ w_noise = None /\ ws = None
    /\ synth_images = None /\ synth_convs = None /\ dist = None /\ reg_loss = None
NoHeat ==
    /\ pose = None /\ image_size = None /\ heat_i = None /\ stack = None /\ heatmap = None
NoInputs ==
    /\ num_steps = None /\ image2GAN_method = None /\ hp = None /\ w_avg_samples = None
    /\ check_point_w_file = None /\ target = None /\ vgg16 = None /\ G = None

(***************************************************************************)
(* Spec: project, lines 43-220.                                            *)
(***************************************************************************)
\* a sample file: np.load(check_point_w_file)['w'], rows of num_ws layer codes
FileRow(a, b) == [l \in 1..NumWs |-> [c \in 1..WDim |-> IF l = 1 THEN a + b * c ELSE 7]]

ProjectFiles == {<<FileRow(0, 1), FileRow(2, 0), FileRow(1, -1)>>}

VggFails == {6, 8, 9}

Init ==
    /\ pc = "start"
    /\ num_steps \in 0..MaxSteps
    /\ image2GAN_method \in BOOLEAN
    /\ hp = DefaultHp
    /\ w_avg_samples = 2
    /\ check_point_w_file \in {NoFile} \cup ProjectFiles
    /\ target \in {0, 255}
    /\ vgg16 \in VggFails
    /\ \E mode \in BOOLEAN :
          G = [id |-> 1, buffers |-> GBuffers, weights |-> 11, training |-> mode,
               requires_grad |-> FALSE, buf_requires_grad |-> FALSE]
    /\ NoStats /\ NoSetup /\ NoLoop
    /\ ret = None
    /\ NoHeat

\* lines 62-138: everything before the loop
Setup ==
    /\ pc = "start"
    /\ LET samples == FirstLayer(IF check_point_w_file # NoFile
                                 THEN check_point_w_file
                                 ELSE Mapping(ZSamples(w_avg_samples)))
       IN  /\ w_samples' = samples
           /\ w_avg' = WAvg(samples)
           /\ w_std' = WStd(samples, w_avg_samples)
           /\ w_opt' = WAvg(samples)
    /\ \E seed \in NoiseSeeds :
          LET copy == EvalFrozen(Deepcopy(G))
              bufs == [n \in {m \in DOMAIN copy.buffers : IsNoiseName(m)} |->
                          RandnBuf(Res(copy.buffers[n]), seed)]
          IN  /\ noise_bufs' = bufs
              /\ G_local' = [WriteBufs(copy, bufs) EXCEPT !.buf_requires_grad = TRUE]
              /\ G' = Alias(G, G_local')
    /\ target_convs' = vgg16_multi_layers_output(vgg16, target, convs)
    /\ target_features' = Lpips(target)
    /\ w_out' = [t \in 1..num_steps |-> [c \in 1..WDim |-> Zero]]
    /\ step' = 0
    /\ pc' = "loop"
    /\ UNCHANGED <<heatVars, argVars, w_noise_scale, lr, w_noise, ws, synth_images,
                   synth_convs, dist, reg_loss, ret>>

\* lines 140-150: the loop head and the schedules of this step
Schedule ==
    /\ pc = "loop"
    /\ step < num_steps
    /\ w_noise_scale' = WNoiseScale(hp, w_std, step, num_steps)
    /\ lr' = LearningRate(hp, step, num_steps)
    /\ pc' = "synth"
    /\ UNCHANGED <<heatVars, inVars, statVars, setupVars, step, w_noise, ws, synth_images,
                   synth_convs, dist, reg_loss, ret>>

\* lines 152-168: the forward pass of the generator
Synth ==
    /\ pc = "synth"
    /\ \E r \in RandnW :
          LET noise == [c \in 1..WDim |-> QMul(QInt(r[c]), w_noise_scale)]
              wsn == [l \in 1..NumWs |-> [c \in 1..WDim |-> QAdd(w_opt[c], noise[c])]]
          IN  /\ w_noise' = noise
              /\ ws' = wsn
              /\ synth_images' = Rescale(Synthesis(wsn, noise_bufs))
    /\ pc' = "loss"
    /\ UNCHANGED <<heatVars, inVars, statVars, setupVars, step, w_noise_scale, lr, synth_convs,
                   dist, reg_loss, ret>>

\* line 193-194: the features the multi-layer term compares the target's with
SynthConvsInput(tgt, synth) == tgt

\* lines 195-196: the multi-layer term
ConvTerm(tc, sc) ==
    SumSeq([k \in 1..Len(convs) |-> (tc[convs[k]] - sc[convs[k]]) * (tc[convs[k]] - sc[convs[k]])])

\* lines 170-202: the loss, when no lookup fails
Loss ==
    /\ pc = "loss"
    /\ reg_loss' = RegLoss(noise_bufs)
    /\ LET d == (target_features - Lpips(synth_images)) * (target_features - Lpips(synth_images))
           sc == vgg16_multi_layers_output(vgg16, SynthConvsInput(target, synth_images), convs)
       IN  IF image2GAN_method
           THEN /\ \A k \in 1..Len(convs) : convs[k] \in DOMAIN target_convs \cap DOMAIN sc
                /\ synth_convs' = sc
                /\ dist' = d + ConvTerm(target_convs, sc)
                              + (target - synth_images) * (target - synth_images)
           ELSE /\ synth_convs' = synth_convs
                /\ dist' = d
    /\ pc' = "opt"
    /\ UNCHANGED <<heatVars, inVars, statVars, setupVars, step, w_noise_scale, lr, w_noise, ws,
                   synth_images, ret>>

\* line 196 when a requested layer is absent: target_convs[conv] raises KeyError
LossKeyError ==
    /\ pc = "loss"
    /\ image2GAN_method
    /\ LET sc == vgg16_multi_layers_output(vgg16, SynthConvsInput(target, synth_images), convs)
       IN  /\ \E k \in 1..Len(convs) : convs[k] \notin DOMAIN target_convs \cap DOMAIN sc
           /\ synth_convs' = sc
    /\ reg_loss' = RegLoss(noise_bufs)
    /\ pc' = "KeyError"
    /\ UNCHANGED <<heatVars, inVars, statVars, setupVars, step, w_noise_scale, lr, w_noise, ws,
                   synth_images, dist, ret>>

\* lines 204-207: backward and optimizer.step()
OptStep ==
    /\ pc = "opt"
    /\ \E g \in 0..MaxGrad :
          /\ w_opt' = StepW(w_opt, lr, g)
          /\ noise_bufs' = [n \in DOMAIN noise_bufs |-> StepBuf(noise_bufs[n], lr, g)]
    /\ G_local' = WriteBufs(G_local, noise_bufs')
    /\ G' = Alias(G, G_local')
    /\ pc' = "record"
    /\ UNCHANGED <<heatVars, argVars, statVars, target_convs, target_features, w_out,
                   loopVars, ret>>

\* line 212: w_out[step] = w_opt.detach()[0]
Record ==
    /\ pc = "record"
    /\ w_out' = [w_out EXCEPT ![step + 1] = Snapshot(w_opt, w_noise)]
    /\ pc' = "norm"
    /\ UNCHANGED <<heatVars, inVars, statVars, G_local, noise_bufs, target_convs,
                   target_features, w_opt, loopVars, ret>>

\* lines 214-218: normalise the noise; then the next iteration
Normalize ==
    /\ pc = "norm"
    /\ noise_bufs' = [n \in DOMAIN noise_bufs |-> NormalizeBuf(noise_bufs[n])]
    /\ G_local' = WriteBufs(G_local, noise_bufs')
    /\ G' = Alias(G, G_local')
    /\ step' = step + 1
    /\ pc' = "loop"
    /\ UNCHANGED <<heatVars, argVars, statVars, target_convs, target_features, w_opt, w_out,
                   w_noise_scale, lr, w_noise, ws, synth_images, synth_convs, dist,
                   reg_loss, ret>>

\* line 220, when range(num_steps) is exhausted
Return ==
    /\ pc = "loop"
    /\ step >= num_steps
    /\ ret' = Repeat(w_out)
    /\ pc' = "done"
    /\ UNCHANGED <<heatVars, inVars, statVars, setupVars, loopVars>>

Next ==
    \/ Setup
    \/ Schedule
    \/ Synth
    \/ Loss
    \/ LossKeyError
    \/ OptStep
    \/ Record
    \/ Normalize
    \/ Return

Spec == Init /\ [][Next]_vars

\* the loop is sequential code: whatever step is enabled is eventually taken
FairSpec == Spec /\ WF_vars(Next)

(***************************************************************************)
(* Claims about project (Spec).                                            *)
(***************************************************************************)
Running == pc \in {"loop", "synth", "loss", "opt", "record", "norm"}

\* C1: for every num_steps >= 0, project executes exactly num_steps steps in
\* the order 0, 1, ..., num_steps-1 with no early exit, and then returns a
\* trajectory of exactly num_steps entries, each one latent vector repeated
\* over all num_ws layers.  Stated for a finite run: whenever project has
\* left its body it has returned, after num_steps steps, that trajectory.
C1_RunsAllSteps ==
    /\ (pc # "start" /\ ~ Running) => pc = "done"
    /\ pc = "done" =>
          /\ step = num_steps
          /\ Len(ret) = num_steps
          /\ \A t \in 1..num_steps : \A l \in 1..NumWs : ret[t][l] = w_out[t]

\* C2: the trajectory entry of step t is the latent code right after that
\* step's optimizer update (before the noise buffers are normalised); the
\* perturbation of the forward pass never enters the stored code, which
\* changes only in the optimizer update; entries of earlier steps are never
\* modified.
C2_EntryIsPostStepW == pc = "norm" => w_out[step + 1] = w_opt

C2_WChangesOnlyInOptStep == (pc # "start" /\ w_opt' # w_opt) => pc = "opt"

C2_ForwardUsesPerturbedCopy ==
    pc \in {"loss", "opt"} =>
        \A l \in 1..NumWs : \A c \in 1..WDim : ws[l][c] = QAdd(w_opt[c], w_noise[c])

C2_EarlierEntriesKept ==
    pc # "start" => \A i \in 1..num_steps : (i <= step \/ pc # "record") => w_out'[i] = w_out[i]

C2_Trajectory ==
    /\ [](C2_EntryIsPostStepW /\ C2_ForwardUsesPerturbedCopy)
    /\ [][C2_WChangesOnlyInOptStep /\ C2_EarlierEntriesKept]_vars

C2_Witness ==
    /\ pc = "norm" /\ step >= 1
    /\ w_noise[1] # Zero
    /\ w_out[step + 1] # w_out[step]
    /\ w_out[1] # w_out[step + 1]

\* C3: with image2GAN_method, the loss of every step includes, for each of
\* the four layers of convs, the squared difference between the target's
\* features and the features of the image synthesised in that step.
LpipsTerm == (target_features - Lpips(synth_images)) * (target_features - Lpips(synth_images))
PixelTerm == (target - synth_images) * (target - synth_images)

C3_MultiLayerUsesCandidate ==
    (pc = "opt" /\ image2GAN_method) =>
        LET cand == vgg16_multi_layers_output(vgg16, synth_images, convs)
        IN  /\ synth_convs = cand
            /\ dist = LpipsTerm + ConvTerm(target_convs, cand) + PixelTerm

\* C4: when a submodule raises during the traversal, vgg16_multi_layers_output
\* returns exactly the requested layers applied before the failure, and a
\* project run with image2GAN_method uses that partial mapping and completes
\* all its steps without an error for the absent layers.
AppliedBefore(fail) ==
    {NamedModules[i] : i \in {j \in 1..Len(NamedModules) : j < fail /\ NamedModules[j] # ""}}

C4_PartialIsNonFatal ==
    /\ pc # "start" => DOMAIN target_convs = AppliedBefore(vgg16) \cap Range(convs)
    /\ pc # "KeyError"

\* C8: at the end of every step every noise buffer has mean 0 and mean square
\* 1, within tolerance; the normalisation comes after the step's optimizer
\* update and trajectory record, so every forward pass after the first step
\* reads normalised buffers.
\* the tolerance: |mean| <= 0.05 and |mean square - 1| <= 0.05
Normalised(buf) ==
    /\ ~ IsNaN(buf)
    /\ LET h == Res(buf)
           V(i, j) == buf[i][j]
       IN  /\ 20 * Abs(SumGrid([i \in 1..h |-> [j \in 1..h |-> V(i, j)]])) <= Unit * h * h
           /\ 20 * Abs(MeanSquare(buf) - Unit * Unit) <= Unit * Unit

AllNormalised == \A n \in DOMAIN noise_bufs : Normalised(noise_bufs[n])

C8_StepEndsNormalised ==
    (pc \in {"loop", "synth", "loss", "done"} /\ step >= 1) => AllNormalised

C8_NormalisedAfterRecord ==
    (pc = "norm" /\ pc' # "norm") =>
        /\ pc' = "loop" /\ step' = step + 1
        /\ w_out[step + 1] = w_opt
        /\ \A n \in DOMAIN noise_bufs : Normalised(noise_bufs'[n])

C8_NoiseNormalised == []C8_StepEndsNormalised /\ [][C8_NormalisedAfterRecord]_vars

C8_Witness ==
    /\ pc = "synth" /\ step = 2
    /\ \E n \in DOMAIN noise_bufs : noise_bufs[n] # NormalizeBuf(RandnBuf(Res(noise_bufs[n]), 0))
    /\ AllNormalised

\* the state of a generator a caller can observe: buffer values, weights,
\* mode and flags
Observable(g) ==
    <<g.buffers, g.weights, g.training, g.requires_grad, g.buf_requires_grad>>

\* project's generator is an object of its own
C11_OwnCopy == pc # "start" => G_local.id # G.id

\* no step changes what the caller's generator holds
C11_CallerUnchanged == Observable(G') = Observable(G)

\* every write to the noise buffers lands in project's own generator
C11_WritesLandInCopy ==
    pc # "start" =>
        /\ \A n \in DOMAIN noise_bufs : G_local.buffers[n] = noise_bufs[n]
        /\ G_local.buf_requires_grad

\* what comes back is the trajectory and nothing else
C11_OnlyTrajectoryReturned ==
    /\ pc # "done" => ret = None
    /\ pc = "done" => ret = Repeat(w_out)

\* C11: project never modifies the caller's generator: the random
\* initialisation of the noise buffers, marking them trainable, every optimizer
\* update and every re-normalisation go to a private deep copy, so the caller's
\* generator keeps its noise-buffer values, weights and flags, and only the
\* returned trajectory flows back.
C11_GeneratorNotModified ==
    /\ [](C11_OwnCopy /\ C11_WritesLandInCopy /\ C11_OnlyTrajectoryReturned)
    /\ [][C11_CallerUnchanged]_vars

C11_Witness ==
    /\ pc = "done" /\ num_steps >= 1
    /\ G_local.buf_requires_grad /\ ~ G.buf_requires_grad
    /\ G.training /\ ~ G_local.training
    /\ \A n \in DOMAIN noise_bufs : noise_bufs[n] # G.buffers[n]
    /\ \A n \in DOMAIN noise_bufs : noise_bufs[n] # RandnBuf(Res(noise_bufs[n]), 0)
    /\ \A n \in DOMAIN noise_bufs : noise_bufs[n] # RandnBuf(Res(noise_bufs[n]), 1)

(***************************************************************************)
(* SpecSched: the schedule lines of project's loop on their own, for run   *)
(* lengths up to MaxSchedSteps.                                            *)
(***************************************************************************)
SchedHps ==
    {DefaultHp,
     [DefaultHp EXCEPT !.lr_rampdown_length = Q(1, 1), !.noise_ramp_length = Q(1, 2)],
     [DefaultHp EXCEPT !.lr_rampup_length = Q(1, 2), !.lr_rampdown_length = Q(1, 2),
                       !.noise_ramp_length = Q(1, 1), !.initial_learning_rate = Q(1, 2)]}

SchedStds == {Q(1, 2), Q(3, 1)}

InitSched ==
    /\ pc = "sched"
    /\ num_steps \in 0..MaxSchedSteps
    /\ hp \in SchedHps
    /\ w_std \in SchedStds
    /\ step = 0
    /\ lr = None
    /\ w_noise_scale = None
    /\ image2GAN_method = None /\ w_avg_samples = None /\ check_point_w_file = None
    /\ target = None /\ vgg16 = None /\ G = None
    /\ w_samples = None /\ w_avg = None
    /\ NoSetup
    /\ w_noise = None /\ ws = None /\ synth_images = None /\ synth_convs = None
    /\ dist = None /\ reg_loss = None
    /\ ret = None
    /\ NoHeat

\* lines 142-150 of iteration `step`
SchedStep ==
    /\ pc = "sched"
    /\ step < num_steps
    /\ w_noise_scale' = WNoiseScale(hp, w_std, step, num_steps)
    /\ lr' = LearningRate(hp, step, num_steps)
    /\ pc' = "body"
    /\ UNCHANGED <<heatVars, inVars, statVars, setupVars, step, w_noise, ws, synth_images,
                   synth_convs, dist, reg_loss, ret>>

\* the rest of the iteration: on to the next step
SchedAdvance ==
    /\ pc = "body"
    /\ step' = step + 1
    /\ pc' = "sched"
    /\ UNCHANGED <<heatVars, inVars, statVars, setupVars, w_noise_scale, lr, w_noise, ws,
                   synth_images, synth_convs, dist, reg_loss, ret>>

NextSched == SchedStep \/ SchedAdvance

SpecSched == InitSched /\ [][NextSched]_vars

(***************************************************************************)
(* Claims about the schedules (SpecSched).                                 *)
(***************************************************************************)
\* the small fraction epsilon of the learning-rate claim
Eps == Q(1, 1000)

\* lr_rampup_length <= t <= 1 - lr_rampdown_length
OnPlateau ==
    /\ QLeq(hp.lr_rampup_length, Progress(step, num_steps))
    /\ QLeq(Progress(step, num_steps), QSub(One, hp.lr_rampdown_length))

LastStepDeepInRampDown ==
    QLeq(QDiv(Q(1, num_steps), hp.lr_rampdown_length), Q(1, 50))

RampNum == hp.noise_ramp_length[1]
RampDen == hp.noise_ramp_length[2]

ClaimedNoiseScale ==
    LET m == IF num_steps * RampNum > step * RampDen
             THEN num_steps * RampNum - step * RampDen ELSE 0
        f == hp.initial_noise_factor
    IN  Q(w_std[1] * f[1] * m * m,
          w_std[2] * f[2] * (num_steps * RampNum) * (num_steps * RampNum))

C7_ScaleFormula ==
    pc = "body" =>
        /\ w_noise_scale = ClaimedNoiseScale
        /\ step * RampDen >= num_steps * RampNum => w_noise_scale = Zero

C7_ScaleDecreases ==
    (pc = "sched" /\ pc' = "body" /\ step >= 1
        /\ (step - 1) * RampDen < num_steps * RampNum) =>
            QLess(w_noise_scale', w_noise_scale)

C7_NoiseSchedule == []C7_ScaleFormula /\ [][C7_ScaleDecreases]_vars

C7_Witness ==
    /\ pc = "body" /\ num_steps = 8 /\ step = 7
    /\ hp = DefaultHp
    /\ w_noise_scale = Zero

(***************************************************************************)
(* SpecStats: the statistics lines of project (76-87) on their own, for    *)
(* every w_avg_samples in 1..MaxSamples and sample files of 1..MaxSamples  *)
(* rows.                                                                   *)
(***************************************************************************)
StatRows == {FileRow(0, 1), FileRow(2, 0), FileRow(1, -1)}

StatFiles == UNION {[1..n -> StatRows] : n \in 1..MaxSamples}

InitStats ==
    /\ pc = "stats"
    /\ w_avg_samples \in 1..MaxSamples
    /\ check_point_w_file \in {NoFile} \cup StatFiles
    /\ num_steps = None /\ image2GAN_method = None /\ hp = None
    /\ target = None /\ vgg16 = None /\ G = None
    /\ NoStats /\ NoSetup /\ NoLoop
    /\ ret = None
    /\ NoHeat

\* lines 76-87
StatsCompute ==
    /\ pc = "stats"
    /\ LET samples == FirstLayer(IF check_point_w_file # NoFile
                                 THEN check_point_w_file
                                 ELSE Mapping(ZSamples(w_avg_samples)))
       IN  /\ w_samples' = samples
           /\ w_avg' = WAvg(samples)
           /\ w_std' = WStd(samples, w_avg_samples)
    /\ pc' = "stats_done"
    /\ UNCHANGED <<heatVars, inVars, setupVars, loopVars, ret>>

NextStats == StatsCompute

SpecStats == InitStats /\ [][NextStats]_vars

(***************************************************************************)
(* Claims about the statistics (SpecStats).                                *)
(***************************************************************************)
\* the number N of samples actually used
SamplesUsed == Len(w_samples)

\* the element-wise mean of the samples used
MeanOfUsed ==
    [c \in 1..WDim |->
        Q(SumSeq([i \in 1..SamplesUsed |-> w_samples[i][c]]), SamplesUsed)]

\* the sum over the samples used of the squared L2 distance to the mean
SumSqDistToMean ==
    QSumSeq([i \in 1..SamplesUsed |->
        QSumSeq([c \in 1..WDim |->
            QSquare(QSub(QInt(w_samples[i][c]), MeanOfUsed[c]))])])

\* C5: whether the samples are mapped from w_avg_samples noise vectors or
\* loaded from check_point_w_file, the mean is the element-wise mean of the
\* first-layer codes of the samples used, and the standard deviation is the
\* square root of the summed squared L2 distance to that mean divided by the
\* number N of samples actually used.
C5_StdDividesBySamplesUsed ==
    pc = "stats_done" =>
        /\ w_avg = MeanOfUsed
        /\ w_std = QSqrt(QDiv(SumSqDistToMean, QInt(SamplesUsed)))

(***************************************************************************)
(* SpecReg: the regulariser lines of project (178-189) on their own, on    *)
(* one or two noise buffers of resolution 4 .. 2^MaxLogRes.                *)
(***************************************************************************)
MaxLogRes == 4

RECURSIVE Pow2(_)
Pow2(k) == IF k = 0 THEN 1 ELSE 2 * Pow2(k - 1)

RegSizes == {Pow2(k) : k \in 2..MaxLogRes}

\* amplitudes, in units of 1/Unit
RegAmps == {50, 150}

ZeroBuf(h) == [i \in 1..h |-> [j \in 1..h |-> 0]]
ConstBuf(h, a) == [i \in 1..h |-> [j \in 1..h |-> a]]
\* alternating sign in both directions, in blocks of b x b pixels
Checkerboard(h, b, a) ==
    [i \in 1..h |-> [j \in 1..h |-> a * (1 - 2 * ((((i - 1) \div b) + ((j - 1) \div b)) % 2))]]

RegBufs ==
    UNION {{ZeroBuf(h), ConstBuf(h, 100), Checkerboard(h, 2, 100), RandnBuf(h, 1)}
             \cup {Checkerboard(h, 1, a) : a \in RegAmps} : h \in RegSizes}

RegNames == {{<<"b4.conv1", "noise_const">>},
             {<<"b4.conv1", "noise_const">>, <<"b8.conv0", "noise_const">>}}

InitReg ==
    /\ pc = "reg"
    /\ \E names \in RegNames : noise_bufs \in [names -> RegBufs]
    /\ reg_loss = 0
    /\ NoInputs /\ NoStats
    /\ G_local = None
    /\ target_convs = None /\ target_features = None /\ w_opt = None /\ w_out = None
    /\ step = None /\ w_noise_scale = None /\ lr = None /\ w_noise = None /\ ws = None
    /\ synth_images = None /\ synth_convs = None /\ dist = None
    /\ ret = None
    /\ NoHeat

\* lines 178-189
RegCompute ==
    /\ pc = "reg"
    /\ reg_loss' = RegLoss(noise_bufs)
    /\ pc' = "reg_done"
    /\ UNCHANGED <<heatVars, inVars, statVars, setupVars, step, w_noise_scale, lr, w_noise, ws,
                   synth_images, synth_convs, dist, ret>>

NextReg == RegCompute

SpecReg == InitReg /\ [][NextReg]_vars

(***************************************************************************)
(* Claims about the regulariser (SpecReg).                                 *)
(***************************************************************************)
\* the buffer after k poolings
RECURSIVE Pooled(_, _)
Pooled(buf, k) == IF k = 0 THEN buf ELSE AvgPool2d(Pooled(buf, k - 1))

\* the scales of a buffer of resolution h: the original one, and every
\* halving down to and including 8 x 8
ClaimedScales(h) == {k \in 0..MaxLogRes : k = 0 \/ h \div Pow2(k) >= 8}

\* the squared mean of the product of p with its circular neighbour along the
\* width / the height, in units of 1/Unit
NeighbourW(p) ==
    LET h == Res(p)
        F(i, j) == p[i][j] * p[i][(j % h) + 1]
        m == RDiv(SumGrid([i \in 1..h |-> [j \in 1..h |-> F(i, j)]]), h * h * Unit)
    IN  RDiv(m * m, Unit)

NeighbourH(p) ==
    LET h == Res(p)
        F(i, j) == p[i][j] * p[(i % h) + 1][j]
        m == RDiv(SumGrid([i \in 1..h |-> [j \in 1..h |-> F(i, j)]]), h * h * Unit)
    IN  RDiv(m * m, Unit)

RECURSIVE SumOver(_, _)
SumOver(f, S) ==
    IF S = {} THEN 0
    ELSE LET x == CHOOSE y \in S : TRUE IN f[x] + SumOver(f, S \ {x})

ClaimedPenalty(buf) ==
    LET S == ClaimedScales(Res(buf))
    IN  SumOver([k \in S |-> NeighbourW(Pooled(buf, k)) + NeighbourH(Pooled(buf, k))], S)

ClaimedRegLoss ==
    SumOver([n \in DOMAIN noise_bufs |-> ClaimedPenalty(noise_bufs[n])], DOMAIN noise_bufs)

IsCheckerboard(buf) == \E a \in RegAmps : buf = Checkerboard(Res(buf), 1, a)

\* C10: the regulariser is the sum, over every noise buffer and every scale
\* from the buffer's original resolution down to and including 8 x 8 by 2x2
\* area pooling, of the squares of the two means of the product of the pooled
\* buffer with itself shifted circularly by one pixel along each axis; all-zero
\* buffers give exactly 0, an alternating-sign checkerboard gives more than 0.
C10_RegulariserSum ==
    pc = "reg_done" =>
        /\ reg_loss = ClaimedRegLoss
        /\ (\A n \in DOMAIN noise_bufs : noise_bufs[n] = ZeroBuf(Res(noise_bufs[n])))
              => reg_loss = 0
        /\ (\E n \in DOMAIN noise_bufs : IsCheckerboard(noise_bufs[n])) => reg_loss > 0

C10_Witness ==
    /\ pc = "reg_done"
    /\ \E n \in DOMAIN noise_bufs :
          /\ Res(noise_bufs[n]) = 16
          /\ NeighbourW(Pooled(noise_bufs[n], 1)) > 0
    /\ \E n \in DOMAIN noise_bufs : IsCheckerboard(noise_bufs[n])
    /\ reg_loss > 0

(***************************************************************************)
(* getGaussianHeatMap, lines 270-277, and getHeatMap, lines 245-267.       *)
(* Positions are in quarter cells of the 64 x 64 grid (exact for image     *)
(* sizes that divide 256), confidences in tenths, densities in units of    *)
(* 10^-6.  An array indexed 0..width-1 is a sequence indexed 1..width.     *)
(***************************************************************************)
\* line 252: for i in range(17)
NumKeypoints == 17

\* line 271
width == 64

\* round(10^4 * exp(-f / 40.96)), f = 0..15: the density falls by exp(-d2 / 2.56)
\* over a squared distance d2 = f / 16 (cov = width * 0.02 = 1.28 on both axes)
Fine == <<10000, 9759, 9523, 9294, 9070, 8851, 8637, 8429,
          8226, 8027, 7834, 7645, 7460, 7281, 7105, 6934>>

\* round(10^6 / (2 pi 1.28) * exp(-16 q / 40.96)), q = 0..31
Coarse == <<124340, 84133, 56927, 38519, 26063, 17635, 11933, 8074,
            5463, 3697, 2501, 1692, 1145, 775, 524, 355,
            240, 162, 110, 74, 50, 34, 23, 16, 11, 7, 5, 3, 2, 1, 1, 1>>

\* multivariate_normal(mean, cov).pdf at squared distance d16 / 16 from the mean
Pdf(d16) ==
    IF d16 >= 16 * Len(Coarse) THEN 0
    ELSE (Coarse[(d16 \div 16) + 1] * Fine[(d16 % 16) + 1]) \div 10000

\* getGaussianHeatMap(bonePos): gau[a][b] is the density at pos = (a, b)
getGaussianHeatMap(bonePos) ==
    [a \in 1..width |-> [b \in 1..width |->
        Pdf((4 * (a - 1) - bonePos[1]) * (4 * (a - 1) - bonePos[1])
            + (4 * (b - 1) - bonePos[2]) * (4 * (b - 1) - bonePos[2]))]]

RatioUnscaled(v, size) == 4 * v

\* lines 258-259: v * ratio with ratio = 64.0 / image_size, in quarter cells
Ratio(v, size) == (v * 4 * width) \div size

\* line 261: if c < 0.4
BelowThreshold(c) == c < 4

\* line 262: map = 0.0 * map
ZeroTimes(map) == [a \in 1..Len(map) |-> [b \in 1..Len(map[a]) |-> 0 * map[a][b]]]

\* lines 253-263: the map of keypoint i (0-based) of the flat list
KeypointMap(p, i, size) ==
    LET x == p[3 * i + 1]
        y == p[3 * i + 2]
        c == p[3 * i + 3]
        map == getGaussianHeatMap(<<Ratio(x, size), Ratio(y, size)>>)
    IN  IF BelowThreshold(c) THEN ZeroTimes(map) ELSE map

\* np.dstack(stack): maps[a][b][k] = stack[k][a][b]
Dstack(st) ==
    [a \in 1..width |-> [b \in 1..width |-> [k \in 1..Len(st) |-> st[k][a][b]]]]

\* transpose(0, -1) of a three-dimensional array: t[k][b][a] = m[a][b][k]
Transpose0Last(m) ==
    [k \in 1..Len(m[1][1]) |-> [b \in 1..Len(m[1]) |-> [a \in 1..Len(m) |-> m[a][b][k]]]]

(***************************************************************************)
(* SpecHeat: getHeatMap on keypoint lists whose positions lie on, at the   *)
(* border of, and up to a few cells outside the image.                     *)
(***************************************************************************)
MaxPoseSeed == 3

ImageSizes == {64, 128, 256}

\* pixel positions of an image of the given size; the last three lie outside
Positions(size) ==
    <<0, size - 1, size \div 2, size - 2, (size \div 2) - 1, 1, (size \div 4) + 1,
      (3 * size) \div 4, size - (size \div 64), -1, size, -(size \div 16)>>

\* confidences, in tenths
Confidences == <<10, 3, 4, 0, 5>>

\* a list of 51 numbers: x, y and confidence of each of the 17 keypoints
PoseOf(seed, size) ==
    [n \in 1..(3 * NumKeypoints) |->
        LET k == (n - 1) \div 3
            f == (n - 1) % 3
            P == Positions(size)
        IN  IF f = 0 THEN P[((k + seed) % Len(P)) + 1]
            ELSE IF f = 1 THEN P[((5 * k + 3 * seed + 2) % Len(P)) + 1]
            ELSE Confidences[((k + seed) % Len(Confidences)) + 1]]

InitHeat ==
    /\ pc = "heat"
    /\ image_size \in ImageSizes
    /\ \E seed \in 0..MaxPoseSeed : pose = PoseOf(seed, image_size)
    /\ heat_i = 0
    /\ stack = <<>>
    /\ heatmap = <<>>
    /\ NoInputs /\ NoStats /\ NoSetup /\ NoLoop
    /\ ret = <<>>

\* lines 252-263: one iteration of the loop over the keypoints
HeatKeypoint ==
    /\ pc = "heat"
    /\ heat_i < NumKeypoints
    /\ stack' = Append(stack, KeypointMap(pose, heat_i, image_size))
    /\ heat_i' = heat_i + 1
    /\ UNCHANGED <<pc, pose, image_size, heatmap, inVars, statVars, setupVars, loopVars, ret>>

\* lines 265-267, when the loop is over
HeatReturn ==
    /\ pc = "heat"
    /\ heat_i >= NumKeypoints
    /\ heatmap' = Transpose0Last(Dstack(stack))
    /\ ret' = Transpose0Last(Dstack(stack))
    /\ pc' = "heat_done"
    /\ UNCHANGED <<pose, image_size, heat_i, stack, inVars, statVars, setupVars, loopVars>>

NextHeat == HeatKeypoint \/ HeatReturn

SpecHeat == InitHeat /\ [][NextHeat]_vars

(***************************************************************************)
(* Claims about getHeatMap (SpecHeat).                                     *)
(***************************************************************************)
\* the largest value of channel k (1-based) of the returned tensor
ChannelMax(k) ==
    LET values == {ret[k][r][col] : r \in 1..64, col \in 1..64}
    IN  CHOOSE top \in values : \A v \in values : v <= top

\* x, y, confidence of channel k (1-based)
KeyX(k) == pose[3 * k - 2]
KeyY(k) == pose[3 * k - 1]
KeyConf(k) == pose[3 * k]

HasShape ==
    /\ Len(ret) = 17
    /\ \A k \in 1..17 : Len(ret[k]) = 64 /\ \A r \in 1..64 : Len(ret[k][r]) = 64

ChannelIsZero(k) == \A r \in 1..64 : \A col \in 1..64 : ret[k][r][col] = 0

\* every cell where channel k is largest is within 0.5 of the keypoint position
\* times 64 / image_size: the column of x, the row of y
\* (in 1/image_size cells: |cell * image_size - 64 v| <= image_size / 2)
PeakWithinRounding(k) ==
    LET top == ChannelMax(k)
    IN  \A r \in 1..64 : \A col \in 1..64 :
            ret[k][r][col] = top =>
                /\ 2 * Abs((col - 1) * image_size - 64 * KeyX(k)) <= image_size
                /\ 2 * Abs((r - 1) * image_size - 64 * KeyY(k)) <= image_size

\* the rescaled position v * 64 / image_size lies in [-0.5, 63.5]
OnGrid(v) == -image_size <= 128 * v /\ 128 * v <= 127 * image_size

\* C9 as stated: the result is a [17, 64, 64] tensor in keypoint order; every
\* channel of confidence < 0.4 is all zero; every channel of confidence >= 0.4
\* has its arg-max within 0.5 per axis of the rescaled keypoint coordinate.
C9_PeakAtEveryKeypoint ==
    pc = "heat_done" =>
        /\ HasShape
        /\ \A k \in 1..17 :
              /\ KeyConf(k) < 4 => ChannelIsZero(k)
              /\ KeyConf(k) >= 4 => PeakWithinRounding(k)

\* C9 as amended: ... every channel of confidence >= 0.4 whose rescaled
\* keypoint coordinate lies in [-0.5, 63.5] on both axes has its arg-max
\* within 0.5 per axis of that coordinate.
C9_PeakAtKeypointOnGrid ==
    pc = "heat_done" =>
        /\ HasShape
        /\ \A k \in 1..17 :
              /\ KeyConf(k) < 4 => ChannelIsZero(k)
              /\ (KeyConf(k) >= 4 /\ OnGrid(KeyX(k)) /\ OnGrid(KeyY(k))) =>
                    ChannelMax(k) > 0 /\ PeakWithinRounding(k)

C9_Witness ==
    /\ pc = "heat_done"
    /\ \E k \in 1..17 : KeyConf(k) < 4 /\ ChannelIsZero(k)
    /\ \E k \in 1..17 :
          /\ KeyConf(k) >= 4 /\ OnGrid(KeyX(k)) /\ OnGrid(KeyY(k))
          /\ KeyX(k) # KeyY(k)
          /\ ChannelMax(k) > 0 /\ PeakWithinRounding(k)

====
